---------------------------- MODULE Spec2Model ----------------------------
(***************************************************************************)
(* The execution core of wollok-ts (src/src/interpreter.ts): the compiler  *)
(* from linked AST nodes to stack-machine instructions, the step executor  *)
(* and the evaluation driver (buildEvaluationFor, run, runTests).          *)
(*                                                                         *)
(* Ids are strings.  Maps (locals, fields, the heap) are functions whose   *)
(* domain is their key set.  JavaScript arrays are sequences; a frame's    *)
(* nextInstruction keeps the source's 0-based value.                       *)
(***************************************************************************)
EXTENDS Integers, Sequences, FiniteSets, TLC

VARIABLES
  pc,           \* where runTests is: "bootstrap", "tests" (a test was skipped),
                \* "test" (in the loop of run) or "done" (run returned)
  test,         \* the name of the test run is running
  index,        \* the position forEach is at in the tests of the environment
  initialized,  \* initializedEvaluation of runTests
  evaluation,   \* the Evaluation being stepped, with the host failure thrown
  twin,         \* a clone of evaluation stepped in lock-step with it, or Nothing
  ran,          \* history: the positions of the tests that were run
  result,       \* what run returned
  previous,     \* history: the evaluation before the last step
  log,          \* history: one entry per executed instruction
  history       \* history: per frame, what pushed it and the interruptions delivered to it

vars == <<pc, test, index, initialized, evaluation, twin, ran, result, previous, log, history>>

(***************************************************************************)
(* Bounds of the model.                                                    *)
(***************************************************************************)
\* how many objects one run may allocate (uuid() never runs out)
MaxUuid == 4
\* how deep the frame stack may grow
MaxFrames == 12
\* how many tests the environment has
TestCount == 169

(***************************************************************************)
(* Generic helpers.                                                        *)
(***************************************************************************)
NONE == "<none>"

EmptyMap == [k \in {} |-> NONE]

assoc(k, v, m) == [y \in (DOMAIN m) \cup {k} |-> IF y = k THEN v ELSE m[y]]

\* ramda zipObj: pairs keys and values, truncated to the shorter of the two
zipObj(keys, values) ==
  LET n == IF Len(keys) < Len(values) THEN Len(keys) ELSE Len(values)
      \* a later duplicate key wins
      lastAt(k) == CHOOSE i \in 1..n :
                     /\ keys[i] = k
                     /\ \A j \in 1..n : keys[j] = k => j <= i
  IN [k \in {keys[i] : i \in 1..n} |-> values[lastAt(k)]]

\* { ...a, ...b }
spread(a, b) == [k \in (DOMAIN a) \cup (DOMAIN b) |-> IF k \in DOMAIN b THEN b[k] ELSE a[k]]

last(s) == s[Len(s)]

init(s) == SubSeq(s, 1, Len(s) - 1)

\* Array.prototype.slice(from)
slice(s, from) == SubSeq(s, from + 1, Len(s))

reverse(s) == [i \in 1..Len(s) |-> s[Len(s) + 1 - i]]

includes(s, x) == \E i \in 1..Len(s) : s[i] = x

RECURSIVE filterOut(_, _)
filterOut(s, x) ==
  IF s = <<>> THEN <<>>
  ELSE IF s[1] = x THEN filterOut(Tail(s), x)
       ELSE <<s[1]>> \o filterOut(Tail(s), x)

(***************************************************************************)
(* Well-known ids and module names.                                        *)
(***************************************************************************)
NULL_ID == "null"
VOID_ID == "void"
TRUE_ID == "true"
FALSE_ID == "false"

ObjectModule == "wollok.lang.Object"
BooleanModule == "wollok.lang.Boolean"
NumberModule == "wollok.lang.Number"
StringModule == "wollok.lang.String"
ListModule == "wollok.lang.List"
BadParameterException == "wollok.lang.BadParameterException"
ExceptionModule == "wollok.lang.Exception"

(***************************************************************************)
(* Instructions.                                                           *)
(***************************************************************************)
LOAD(name) == [kind |-> "LOAD", name |-> name]
STORE(name, lookup) == [kind |-> "STORE", name |-> name, lookup |-> lookup]
PUSH(id) == [kind |-> "PUSH", id |-> id]
GET(name) == [kind |-> "GET", name |-> name]
SET(name) == [kind |-> "SET", name |-> name]
INSTANTIATE(module, innerValue) ==
  [kind |-> "INSTANTIATE", module |-> module, innerValue |-> innerValue]
INHERITS(module) == [kind |-> "INHERITS", module |-> module]
CONDITIONAL_JUMP(count) == [kind |-> "CONDITIONAL_JUMP", count |-> count]
CALL(message, arity, lookupStart) ==
  [kind |-> "CALL", message |-> message, arity |-> arity, lookupStart |-> lookupStart]
INIT(arity, lookupStart, initFields) ==
  [kind |-> "INIT", arity |-> arity, lookupStart |-> lookupStart, initFields |-> initFields]
IF_THEN_ELSE(thenHandler, elseHandler) ==
  [kind |-> "IF_THEN_ELSE", thenHandler |-> thenHandler, elseHandler |-> elseHandler]
TRY_CATCH_ALWAYS(body, catchHandler, alwaysHandler) ==
  [kind |-> "TRY_CATCH_ALWAYS", body |-> body, catchHandler |-> catchHandler,
   alwaysHandler |-> alwaysHandler]
INTERRUPT(interruption) == [kind |-> "INTERRUPT", interruption |-> interruption]
RESUME_INTERRUPTION == [kind |-> "RESUME_INTERRUPTION"]

\* innerValue payloads; Undefined is the absent innerValue
Undefined == [type |-> "undefined"]
NullValue == [type |-> "null"]
BooleanValue(b) == [type |-> "boolean", value |-> b]
NumberValue(n) == [type |-> "number", value |-> n]
StringValue(s) == [type |-> "string", value |-> s]
ListValue(ids) == [type |-> "list", value |-> ids]


(***************************************************************************)
(* Linked AST nodes, as the compiler reads them.  What the linker resolved *)
(* (resolveTarget, fullyQualifiedName, parentOf, firstAncestorOfKind) is   *)
(* stored in the node: a Reference carries the kind and the fully          *)
(* qualified name of its target, a Super the name of the enclosing method  *)
(* and the fully qualified name of the module declaring it.                *)
(***************************************************************************)
Body(sentences) == [kind |-> "Body", sentences |-> sentences]
Reference(name, targetKind, fqn) ==
  [kind |-> "Reference", name |-> name, targetKind |-> targetKind, fqn |-> fqn]
LocalRef(name) == Reference(name, "Variable", name)
FieldRef(name) == Reference(name, "Field", name)
ModuleRef(fqn) == Reference(fqn, "Singleton", fqn)
Variable(name, value) == [kind |-> "Variable", name |-> name, value |-> value]
Return(value) == [kind |-> "Return", hasValue |-> TRUE, value |-> value]
ReturnNothing == [kind |-> "Return", hasValue |-> FALSE]
Assignment(reference, value) ==
  [kind |-> "Assignment", reference |-> reference, value |-> value]
Self == [kind |-> "Self"]
Literal(value) == [kind |-> "Literal", value |-> value]
Send(receiver, message, args) ==
  [kind |-> "Send", receiver |-> receiver, message |-> message, args |-> args]
Super(args, method, parent) ==
  [kind |-> "Super", args |-> args, method |-> method, parent |-> parent]
New(className, args) == [kind |-> "New", className |-> className, args |-> args]
If(condition, thenBody, elseBody) ==
  [kind |-> "If", condition |-> condition, thenBody |-> thenBody, elseBody |-> elseBody]
Throw(arg) == [kind |-> "Throw", arg |-> arg]
Catch(parameter, parameterType, body) ==
  [parameter |-> parameter, parameterType |-> parameterType, body |-> body]
Try(body, catches, always) ==
  [kind |-> "Try", body |-> body, catches |-> catches, always |-> always]

\* literals
Null == Literal(NullValue)
True == Literal(BooleanValue(TRUE))
False == Literal(BooleanValue(FALSE))
\* a number literal, in units of 0.00001
Number(n) == Literal(NumberValue(n))
String(s) == Literal(StringValue(s))

(***************************************************************************)
(* compile: one lowering rule per node kind.                               *)
(***************************************************************************)
RECURSIVE compile(_)
RECURSIVE flatMapCompile(_)
RECURSIVE compileCatches(_)

flatMapCompile(nodes) ==
  IF nodes = <<>> THEN <<>>
  ELSE compile(nodes[1]) \o flatMapCompile(Tail(nodes))

compiledCatch(catch) ==
  <<PUSH(VOID_ID), LOAD("<exception>"), STORE(catch.parameter, FALSE)>>
    \o compile(catch.body)
    \o <<INTERRUPT("result")>>

compileCatches(catches) ==
  IF catches = <<>> THEN <<>>
  ELSE <<LOAD("<exception>"),
         INHERITS(catches[1].parameterType),
         CONDITIONAL_JUMP(Len(compiledCatch(catches[1])))>>
         \o compiledCatch(catches[1])
         \o compileCatches(Tail(catches))

compileLiteral(node) ==
  CASE node.value.type = "null" -> <<PUSH(NULL_ID)>>
    [] node.value.type = "boolean" ->
         <<PUSH(IF node.value.value THEN TRUE_ID ELSE FALSE_ID)>>
    [] node.value.type = "number" -> <<INSTANTIATE(NumberModule, node.value)>>
    [] node.value.type = "string" -> <<INSTANTIATE(StringModule, node.value)>>
    [] node.value.type = "Singleton" ->
         flatMapCompile(node.value.superCall.args)
           \o <<INSTANTIATE(node.value.fqn, Undefined),
                INIT(Len(node.value.superCall.args), node.value.superCall.superclass, TRUE)>>
    [] OTHER ->
         flatMapCompile(node.value.args)
           \o <<INSTANTIATE(node.value.className, ListValue(<<>>)),
                INIT(Len(node.value.args), node.value.className, FALSE)>>

compile(node) ==
  CASE node.kind = "Body" -> flatMapCompile(node.sentences)
    [] node.kind = "Variable" -> compile(node.value) \o <<STORE(node.name, FALSE)>>
    [] node.kind = "Return" ->
         (IF node.hasValue THEN compile(node.value) ELSE <<PUSH(VOID_ID)>>)
           \o <<INTERRUPT("return")>>
    [] node.kind = "Assignment" ->
         IF node.reference.targetKind = "Field"
         THEN <<LOAD("self")>> \o compile(node.value) \o <<SET(node.reference.name)>>
         ELSE compile(node.value) \o <<STORE(node.reference.name, TRUE)>>
    [] node.kind = "Self" -> <<LOAD("self")>>
    [] node.kind = "Reference" ->
         IF node.targetKind = "Field" THEN <<LOAD("self"), GET(node.name)>>
         ELSE IF node.targetKind \in {"Class", "Singleton", "Mixin"}
              THEN <<LOAD(node.fqn)>>
              ELSE <<LOAD(node.name)>>
    [] node.kind = "Literal" -> compileLiteral(node)
    [] node.kind = "Send" ->
         compile(node.receiver) \o flatMapCompile(node.args)
           \o <<CALL(node.message, Len(node.args), NONE)>>
    [] node.kind = "Super" ->
         <<LOAD("self")>> \o flatMapCompile(node.args)
           \o <<CALL(node.method, Len(node.args), node.parent)>>
    [] node.kind = "New" ->
         flatMapCompile(node.args)
           \o <<INSTANTIATE(node.className, Undefined),
                INIT(Len(node.args), node.className, TRUE)>>
    [] node.kind = "If" ->
         compile(node.condition)
           \o <<IF_THEN_ELSE(compile(node.thenBody), compile(node.elseBody))>>
    [] node.kind = "Throw" -> compile(node.arg) \o <<INTERRUPT("exception")>>
    [] node.kind = "Try" ->
         <<TRY_CATCH_ALWAYS(compile(node.body),
                            compileCatches(node.catches),
                            compile(node.always))>>

(***************************************************************************)
(* The environment: the linked program the evaluation runs.                *)
(***************************************************************************)
Parameter(name) == [name |-> name, isVarArg |-> FALSE]
VarArg(name) == [name |-> name, isVarArg |-> TRUE]
Field(name, value) == [kind |-> "Field", name |-> name, value |-> value]
Method(parent, name, parameters, body) ==
  [kind |-> "Method", parent |-> parent, name |-> name, parameters |-> parameters,
   isNative |-> FALSE, body |-> body]
NativeMethod(parent, name, parameters) ==
  [kind |-> "Method", parent |-> parent, name |-> name, parameters |-> parameters,
   isNative |-> TRUE]
Constructor(parameters, callsSuper, args, body) ==
  [kind |-> "Constructor", parameters |-> parameters,
   baseCall |-> [callsSuper |-> callsSuper, args |-> args], body |-> body]
DefaultConstructor == Constructor(<<>>, TRUE, <<>>, Body(<<>>))
Class(name, superclassName, members) ==
  [kind |-> "Class", name |-> name, superclassName |-> superclassName, members |-> members]
Singleton(name, id, superclassName, args, members) ==
  [kind |-> "Singleton", name |-> name, id |-> id, superclassName |-> superclassName,
   superCall |-> [args |-> args], members |-> members]

\* class wollok.lang.Object
ObjectClass ==
  Class(ObjectModule, NONE, <<
    DefaultConstructor,
    Method(ObjectModule, "messageNotUnderstood",
           <<Parameter("name"), Parameter("parameters")>>,
           Body(<<Throw(New(ExceptionModule, <<>>))>>)),
    NativeMethod(ObjectModule, "identity", <<>>)>>)

\* class A { var count = false ... }
ClassA ==
  Class("p.A", ObjectModule, <<
    Field("count", False),
    DefaultConstructor,
    Method("p.A", "m", <<>>, Body(<<Return(True)>>)),
    Method("p.A", "f", <<Parameter("a"), Parameter("b")>>, Body(<<Return(LocalRef("a"))>>)),
    Method("p.A", "v", <<Parameter("a"), VarArg("rest")>>, Body(<<Return(LocalRef("rest"))>>)),
    Method("p.A", "fall", <<>>, Body(<<True>>)),
    Method("p.A", "boom", <<>>, Body(<<Throw(New("p.E", <<>>))>>)),
    Method("p.A", "getCount", <<>>, Body(<<Return(FieldRef("count"))>>)),
    Method("p.A", "setCount", <<Parameter("x")>>,
           Body(<<Assignment(FieldRef("count"), LocalRef("x"))>>)),
    Method("p.A", "tryReturn", <<>>,
           Body(<<Variable("x", False),
                  Try(Body(<<Return(Null)>>), <<>>,
                      Body(<<Assignment(LocalRef("x"), True)>>)),
                  Return(LocalRef("x"))>>)),
    Method("p.A", "tryReturnIf", <<>>,
           Body(<<Try(Body(<<Return(Null)>>), <<>>,
                      Body(<<If(True, Body(<<>>), Body(<<>>))>>))>>))>>)

\* class B extends A: m calls super; q calls a super that does not exist
ClassB ==
  Class("p.B", "p.A", <<
    DefaultConstructor,
    Method("p.B", "m", <<>>, Body(<<Return(Super(<<>>, "m", "p.B"))>>)),
    Method("p.B", "q", <<Parameter("a")>>,
           Body(<<Return(Super(<<LocalRef("a")>>, "q", "p.B"))>>))>>)

\* class C extends B: overrides m and messageNotUnderstood (with an empty body)
ClassC ==
  Class("p.C", "p.B", <<
    DefaultConstructor,
    Method("p.C", "m", <<>>, Body(<<Return(Super(<<>>, "m", "p.C"))>>)),
    Method("p.C", "messageNotUnderstood", <<Parameter("name"), Parameter("args")>>,
           Body(<<>>))>>)

\* class wollok.lang.List
ListClass ==
  Class(ListModule, ObjectModule, <<
    DefaultConstructor,
    NativeMethod(ListModule, "add", <<Parameter("element")>>)>>)

\* class P: a fixed-arity and a varargs constructor
ClassP ==
  Class("p.P", ObjectModule, <<
    Field("first", Null),
    Field("others", Null),
    Method("p.P", "getOthers", <<>>, Body(<<Return(FieldRef("others"))>>)),
    Constructor(<<Parameter("a"), Parameter("b")>>, TRUE, <<>>,
                Body(<<Assignment(FieldRef("first"), LocalRef("a")),
                       Assignment(FieldRef("others"), LocalRef("b"))>>)),
    Constructor(<<Parameter("a"), VarArg("rest")>>, TRUE, <<>>,
                Body(<<Assignment(FieldRef("first"), LocalRef("a")),
                       Assignment(FieldRef("others"), LocalRef("rest"))>>))>>)

\* class Q extends P: a field of its own, and a constructor that calls super
ClassQ ==
  Class("p.Q", "p.P", <<
    Field("tail", False),
    Constructor(<<Parameter("a")>>, TRUE, <<LocalRef("a"), True>>,
                Body(<<Assignment(FieldRef("tail"), LocalRef("a"))>>))>>)

Modules ==
  [n \in {ObjectModule, BooleanModule, NumberModule, StringModule, ListModule,
          ExceptionModule, BadParameterException,
          "p.E", "p.F", "p.A", "p.B", "p.C", "p.P", "p.Q", "p.b", "p.c", "p.s"} |->
     CASE n = ObjectModule -> ObjectClass
       [] n = ListModule -> ListClass
       [] n = ExceptionModule -> Class(n, ObjectModule, <<DefaultConstructor>>)
       [] n = BadParameterException -> Class(n, ExceptionModule, <<DefaultConstructor>>)
       [] n \in {"p.E", "p.F"} -> Class(n, ExceptionModule, <<DefaultConstructor>>)
       [] n = "p.A" -> ClassA
       [] n = "p.B" -> ClassB
       [] n = "p.C" -> ClassC
       [] n = "p.P" -> ClassP
       [] n = "p.Q" -> ClassQ
       [] n = "p.b" -> Singleton(n, "id-b", "p.B", <<>>, <<>>)
       [] n = "p.c" -> Singleton(n, "id-c", "p.C", <<>>, <<>>)
       \* object s inherits P(true): the varargs constructor
       [] n = "p.s" -> Singleton(n, "id-s", "p.P", <<True>>, <<>>)
       [] OTHER -> Class(n, ObjectModule, <<DefaultConstructor>>)]

\* descendants(environment).filter(is('Singleton')).filter(node => !!node.name)
globalSingletons == <<Modules["p.b"], Modules["p.c"], Modules["p.s"]>>

(***************************************************************************)
(* Environment queries (utils).                                            *)
(***************************************************************************)
\* the absent node (undefined)
Nothing == [kind |-> "Nothing"]

resolve(fqn) == IF fqn \in DOMAIN Modules THEN Modules[fqn] ELSE Nothing

fullyQualifiedName(module) == module.name

superclass(module) ==
  IF module.kind = "Nothing" THEN Nothing ELSE resolve(module.superclassName)

RECURSIVE hierarchy(_)
hierarchy(module) ==
  IF module.kind = "Nothing" THEN <<>>
  ELSE <<module>> \o hierarchy(superclass(module))

inherits(child, parent) ==
  \E i \in 1..Len(hierarchy(child)) : hierarchy(child)[i].name = parent.name

matchesArity(member, arity) ==
  IF \E i \in 1..Len(member.parameters) : member.parameters[i].isVarArg
  THEN Len(member.parameters) - 1 <= arity
  ELSE Len(member.parameters) = arity

\* the first member of the module that satisfies the test, or Nothing
RECURSIVE findMember(_, _, _, _)
findMember(members, kind, name, arity) ==
  IF members = <<>> THEN Nothing
  ELSE IF /\ members[1].kind = kind
          /\ (kind = "Method" => members[1].name = name)
          /\ matchesArity(members[1], arity)
       THEN members[1]
       ELSE findMember(Tail(members), kind, name, arity)

RECURSIVE lookupIn(_, _, _)
lookupIn(modules, name, arity) ==
  IF modules = <<>> THEN Nothing
  ELSE LET found == findMember(modules[1].members, "Method", name, arity)
       IN IF found.kind # "Nothing" THEN found ELSE lookupIn(Tail(modules), name, arity)

methodLookup(name, arity, start) == lookupIn(hierarchy(start), name, arity)

constructorLookup(arity, owner) ==
  IF owner.kind = "Nothing" THEN Nothing
  ELSE findMember(owner.members, "Constructor", NONE, arity)

(***************************************************************************)
(* Operations on an evaluation.  An evaluation is a record with the        *)
(* frameStack and the instances of the source, and failure: the message of *)
(* the host Error a step threw ("" while none was thrown).                 *)
(***************************************************************************)
Frame(instructions, locals, resume) ==
  [instructions |-> instructions, nextInstruction |-> 0, locals |-> locals,
   operandStack |-> <<>>, resume |-> resume]

currentFrame(ev) == last(ev.frameStack)

Failure(ev, message) == [ev EXCEPT !.failure = message]

pushOperand(ev, id) ==
  [ev EXCEPT !.frameStack[Len(ev.frameStack)].operandStack = Append(@, id)]

\* the evaluation after n successful popOperand calls
popOperands(ev, n) ==
  [ev EXCEPT !.frameStack[Len(ev.frameStack)].operandStack = SubSeq(@, 1, Len(@) - n)]

\* popOperand on a stack that runs empty
poppedEmpty(ev) ==
  Failure([ev EXCEPT !.frameStack[Len(ev.frameStack)].operandStack = <<>>],
          "Popped empty operand stack")

undefinedInstance(ev) == Failure(ev, "Access to undefined instance")

\* Number(innerValue.toFixed(4)), on numbers in units of 0.00001
toFixed4(n) ==
  LET magnitude == IF n < 0 THEN -n ELSE n
      rounded == ((magnitude + 5) \div 10) * 10
  IN IF n < 0 THEN -rounded ELSE rounded

\* addInstance; id is what uuid() returned
addInstance(ev, id, module, innerValue) ==
  LET value == IF module = NumberModule /\ innerValue.type = "number"
               THEN NumberValue(toFixed4(innerValue.value))
               ELSE innerValue
  IN [ev EXCEPT !.instances =
        assoc(id, [id |-> id, module |-> module, fields |-> EmptyMap, innerValue |-> value], @)]

\* the frames left by the do-while loop of interrupt
RECURSIVE unwind(_, _)
unwind(frameStack, interruption) ==
  LET rest == init(frameStack)
  IN IF rest = <<>> THEN <<>>
     ELSE IF includes(last(rest).resume, interruption) THEN rest
          ELSE unwind(rest, interruption)

\* interrupt, with no frame left, of an exception: the log.error line reads the
\* exception and its message through getInstance
unreadable(ev, valueId) ==
  \/ valueId \notin DOMAIN ev.instances
  \/ /\ "message" \in DOMAIN ev.instances[valueId].fields
     /\ ev.instances[valueId].fields["message"] \notin DOMAIN ev.instances

interrupt(ev, interruption, valueId) ==
  LET rest == unwind(ev.frameStack, interruption)
  IN IF rest = <<>>
     THEN IF interruption = "exception" /\ unreadable(ev, valueId)
          THEN undefinedInstance([ev EXCEPT !.frameStack = <<>>])
          ELSE Failure([ev EXCEPT !.frameStack = <<>>], "Unhandled interruption")
     ELSE [ev EXCEPT !.frameStack =
             [rest EXCEPT ![Len(rest)].resume = filterOut(@, interruption),
                          ![Len(rest)].operandStack = Append(@, valueId)]]

\* currentFrame.resume.push(kind); frameStack.push(frame)
pushFrame(ev, kind, frame) ==
  [ev EXCEPT !.frameStack =
     Append([@ EXCEPT ![Len(@)].resume = Append(@, kind)], frame)]

\* the natives registry: identity answers the receiver, add appends to a list
native(method, self, args, ev) ==
  CASE method.name = "identity" -> pushOperand(ev, self.id)
    \* List.add: self.innerValue.push(element.id), in place
    [] method.name = "add" ->
         IF args[1] = Nothing THEN Failure(ev, "TypeError")
         ELSE pushOperand([ev EXCEPT !.instances[self.id].innerValue.value =
                             Append(@, args[1].id)],
                          VOID_ID)
    [] OTHER -> ev

(***************************************************************************)
(* step: one operator per instruction kind.  Each gets the evaluation      *)
(* after currentFrame.nextInstruction++, and uuids, what the calls of      *)
(* uuid() of this step return.                                             *)
(***************************************************************************)
\* the indexes of the frames whose locals bind the name
binders(ev, name) ==
  {i \in 1..Len(ev.frameStack) : name \in DOMAIN ev.frameStack[i].locals}

innermost(indexes) == CHOOSE i \in indexes : \A j \in indexes : j <= i

stepLOAD(ev, instruction) ==
  IF binders(ev, instruction.name) = {}
  THEN Failure(ev, "LOAD of missing local")
  ELSE pushOperand(ev,
         ev.frameStack[innermost(binders(ev, instruction.name))].locals[instruction.name])

\* alternative: STORE always binds in the current frame
stepSTOREInCurrentFrame(ev, instruction) ==
  IF currentFrame(ev).operandStack = <<>> THEN poppedEmpty(ev)
  ELSE [popOperands(ev, 1) EXCEPT
          !.frameStack[Len(ev.frameStack)].locals =
             assoc(instruction.name, last(currentFrame(ev).operandStack), @)]

stepSTORE(ev, instruction) ==
  IF currentFrame(ev).operandStack = <<>> THEN poppedEmpty(ev)
  ELSE LET valueId == last(currentFrame(ev).operandStack)
           frame == IF instruction.lookup /\ binders(ev, instruction.name) # {}
                    THEN innermost(binders(ev, instruction.name))
                    ELSE Len(ev.frameStack)
       IN [popOperands(ev, 1) EXCEPT
             !.frameStack[frame].locals = assoc(instruction.name, valueId, @)]

stepPUSH(ev, instruction) == pushOperand(ev, instruction.id)

stepGET(ev, instruction) ==
  IF currentFrame(ev).operandStack = <<>> THEN poppedEmpty(ev)
  ELSE LET selfId == last(currentFrame(ev).operandStack)
           ev1 == popOperands(ev, 1)
       IN IF selfId \notin DOMAIN ev.instances THEN undefinedInstance(ev1)
          ELSE IF instruction.name \notin DOMAIN ev.instances[selfId].fields
               THEN Failure(ev1, "Access to undefined field")
               ELSE pushOperand(ev1, ev.instances[selfId].fields[instruction.name])

stepSET(ev, instruction) ==
  IF Len(currentFrame(ev).operandStack) < 2 THEN poppedEmpty(ev)
  ELSE LET operands == currentFrame(ev).operandStack
           valueId == operands[Len(operands)]
           selfId == operands[Len(operands) - 1]
           ev1 == popOperands(ev, 2)
       IN IF selfId \notin DOMAIN ev.instances THEN undefinedInstance(ev1)
          ELSE [ev1 EXCEPT !.instances[selfId].fields = assoc(instruction.name, valueId, @)]

stepSWAP(ev, instruction) ==
  IF Len(currentFrame(ev).operandStack) < 2 THEN poppedEmpty(ev)
  ELSE LET operands == currentFrame(ev).operandStack
           a == operands[Len(operands)]
           b == operands[Len(operands) - 1]
       IN pushOperand(pushOperand(popOperands(ev, 2), a), b)

stepINSTANTIATE(ev, instruction, uuids) ==
  pushOperand(addInstance(ev, uuids[1], instruction.module, instruction.innerValue), uuids[1])

stepINHERITS(ev, instruction) ==
  IF currentFrame(ev).operandStack = <<>> THEN poppedEmpty(ev)
  ELSE LET selfId == last(currentFrame(ev).operandStack)
           ev1 == popOperands(ev, 1)
       IN IF selfId \notin DOMAIN ev.instances THEN undefinedInstance(ev1)
          ELSE pushOperand(ev1,
                 IF inherits(resolve(ev.instances[selfId].module), resolve(instruction.module))
                 THEN TRUE_ID ELSE FALSE_ID)

\* alternative: a jump of any count
stepCONDITIONAL_JUMPUnchecked(ev, instruction, uuids) ==
  IF currentFrame(ev).operandStack = <<>> THEN poppedEmpty(ev)
  ELSE LET check == last(currentFrame(ev).operandStack)
           ev1 == popOperands(ev, 1)
       IN IF check # TRUE_ID /\ check # FALSE_ID
          THEN interrupt(addInstance(ev1, uuids[1], BadParameterException, Undefined),
                         "exception", uuids[1])
          ELSE [ev1 EXCEPT !.frameStack[Len(ev1.frameStack)].nextInstruction =
                  @ + (IF check = FALSE_ID THEN instruction.count ELSE 0)]

\* alternative: a jump may reach the end of the instructions
stepCONDITIONAL_JUMPToTheEnd(ev, instruction, uuids) ==
  IF currentFrame(ev).operandStack = <<>> THEN poppedEmpty(ev)
  ELSE LET check == last(currentFrame(ev).operandStack)
           ev1 == popOperands(ev, 1)
           frame == currentFrame(ev1)
       IN IF check # TRUE_ID /\ check # FALSE_ID
          THEN interrupt(addInstance(ev1, uuids[1], BadParameterException, Undefined),
                         "exception", uuids[1])
          ELSE IF \/ frame.nextInstruction + instruction.count > Len(frame.instructions)
                  \/ instruction.count < 0
               THEN Failure(ev1, "Invalid jump count")
               ELSE [ev1 EXCEPT !.frameStack[Len(ev1.frameStack)].nextInstruction =
                       @ + (IF check = FALSE_ID THEN instruction.count ELSE 0)]

stepCONDITIONAL_JUMP(ev, instruction, uuids) ==
  IF currentFrame(ev).operandStack = <<>> THEN poppedEmpty(ev)
  ELSE LET check == last(currentFrame(ev).operandStack)
           ev1 == popOperands(ev, 1)
           frame == currentFrame(ev1)
       IN IF check # TRUE_ID /\ check # FALSE_ID
          THEN interrupt(addInstance(ev1, uuids[1], BadParameterException, Undefined),
                         "exception", uuids[1])
          ELSE IF \/ frame.nextInstruction + instruction.count >= Len(frame.instructions)
                  \/ instruction.count < 0
               THEN Failure(ev1, "Invalid jump count")
               ELSE [ev1 EXCEPT !.frameStack[Len(ev1.frameStack)].nextInstruction =
                       @ + (IF check = FALSE_ID THEN instruction.count ELSE 0)]

\* Array.from({ length: n }, popOperand): the operands in the order they are popped
popped(operandStack, n) == [i \in 1..n |-> operandStack[Len(operandStack) + 1 - i]]

\* alternative: the arguments in the order they are popped
callArgumentsAsPopped(operandStack, arity) == popped(operandStack, arity)

\* argIds of CALL
callArguments(operandStack, arity) == reverse(popped(operandStack, arity))

\* array[n] for a 0-based n, NONE when out of range (undefined)
at(array, n) == IF n + 1 \in 1..Len(array) THEN array[n + 1] ELSE NONE

\* Array.prototype.findIndex, 0-based, -1 when absent
findIndex(array, x) ==
  IF includes(array, x)
  THEN (CHOOSE i \in 1..Len(array) : array[i] = x /\ \A j \in 1..(i - 1) : array[j] # x) - 1
  ELSE -1

names(nodes) == [i \in 1..Len(nodes) |-> nodes[i].name]

\* alternative: the lookup starts at the class lookupStart names
callLookupStartAtClass(self, instruction) ==
  IF instruction.lookupStart # NONE
  THEN LET ownHierarchy == names(hierarchy(resolve(self.module)))
           start == findIndex(ownHierarchy, instruction.lookupStart)
       IN at(ownHierarchy, start)
  ELSE self.module

\* the fully qualified name of the class where CALL starts the lookup
callLookupStart(self, instruction) ==
  IF instruction.lookupStart # NONE
  THEN LET ownHierarchy == names(hierarchy(resolve(self.module)))
           start == findIndex(ownHierarchy, instruction.lookupStart)
       IN at(ownHierarchy, start + 1)
  ELSE self.module

\* alternative: messageNotUnderstood is looked up from lookupStart
notUnderstoodMethodFromLookupStart(self, lookupStart) ==
  methodLookup("messageNotUnderstood", 2, resolve(lookupStart))

\* the method the messageNotUnderstood branch of CALL runs
notUnderstoodMethod(self, lookupStart) ==
  methodLookup("messageNotUnderstood", 2, resolve(self.module))

isVarArgs(member) == \E i \in 1..Len(member.parameters) : member.parameters[i].isVarArg

\* alternative: the frame inherits self from the frames below
callLocalsWithoutSelf(method, argIds, selfId, restId) ==
  IF isVarArgs(method)
  THEN spread(zipObj(init(names(method.parameters)), argIds),
              assoc(last(method.parameters).name, restId, EmptyMap))
  ELSE zipObj(names(method.parameters), argIds)

\* locals of the frame CALL pushes for a non-native method
callLocals(method, argIds, selfId, restId) ==
  IF isVarArgs(method)
  THEN spread(spread(zipObj(init(names(method.parameters)), argIds),
                     assoc(last(method.parameters).name, restId, EmptyMap)),
              [self |-> selfId])
  ELSE spread(zipObj(names(method.parameters), argIds), [self |-> selfId])

\* locals of the frame of the messageNotUnderstood branch
notUnderstoodLocals(method, nameId, argsId, selfId) ==
  spread(zipObj(names(method.parameters), <<nameId, argsId>>), [self |-> selfId])

\* instructions of the frame CALL pushes for a non-native method
callInstructions(method) ==
  compile(method.body) \o <<PUSH(VOID_ID), INTERRUPT("return")>>

\* instructions of the frame of the messageNotUnderstood branch
notUnderstoodInstructions(method) == compile(method.body)

stepCALL(ev, instruction, uuids) ==
  IF Len(currentFrame(ev).operandStack) < instruction.arity + 1 THEN poppedEmpty(ev)
  ELSE
    LET operands == currentFrame(ev).operandStack
        argIds == callArguments(operands, instruction.arity)
        selfId == operands[Len(operands) - instruction.arity]
        ev1 == popOperands(ev, instruction.arity + 1)
    IN IF selfId \notin DOMAIN ev.instances THEN undefinedInstance(ev1)
       ELSE
         LET self == ev.instances[selfId]
             lookupStart == callLookupStart(self, instruction)
             method == methodLookup(instruction.message, instruction.arity, resolve(lookupStart))
         IN IF method.kind = "Nothing"
            THEN LET messageNotUnderstood == notUnderstoodMethod(self, lookupStart)
                     nameId == uuids[1]
                     argsId == uuids[2]
                     ev2 == addInstance(ev1, nameId, StringModule, StringValue(instruction.message))
                     ev3 == addInstance(ev2, argsId, ListModule, ListValue(argIds))
                 IN IF messageNotUnderstood.kind = "Nothing"
                    THEN Failure(ev1, "TypeError")
                    ELSE pushFrame(ev3, "return",
                           Frame(notUnderstoodInstructions(messageNotUnderstood),
                                 notUnderstoodLocals(messageNotUnderstood, nameId, argsId, selfId),
                                 <<>>))
            ELSE IF method.isNative
                 THEN native(method, self,
                             [i \in 1..Len(argIds) |->
                                IF argIds[i] \in DOMAIN ev.instances
                                THEN ev.instances[argIds[i]] ELSE Nothing],
                             ev1)
                 ELSE LET restId == uuids[1]
                          ev2 == IF isVarArgs(method)
                                 THEN addInstance(ev1, restId, ListModule,
                                        ListValue(slice(argIds, Len(method.parameters) - 1)))
                                 ELSE ev1
                      IN pushFrame(ev2, "return",
                           Frame(callInstructions(method),
                                 callLocals(method, argIds, selfId, restId),
                                 <<>>))

\* alternative: the fields of the hierarchy, subclass fields first
RECURSIVE allFieldsSubclassFirst(_)
allFieldsSubclassFirst(modules) ==
  IF modules = <<>> THEN <<>>
  ELSE SelectSeq(modules[1].members, LAMBDA member : member.kind = "Field")
         \o allFieldsSubclassFirst(Tail(modules))

\* the fields of the hierarchy, superclass fields first
RECURSIVE allFields(_)
allFields(modules) ==
  IF modules = <<>> THEN <<>>
  ELSE allFields(Tail(modules))
         \o SelectSeq(modules[1].members, LAMBDA member : member.kind = "Field")

RECURSIVE initFieldsInstructions(_)
initFieldsInstructions(fields) ==
  IF fields = <<>> THEN <<>>
  ELSE <<LOAD("self")>> \o compile(fields[1].value) \o <<SET(fields[1].name)>>
         \o initFieldsInstructions(Tail(fields))

\* locals of the frame INIT pushes
initLocals(constructor, argIds, selfId, restObject) ==
  IF isVarArgs(constructor)
  THEN spread(spread(zipObj(names(init(constructor.parameters)), argIds),
                     assoc(last(constructor.parameters).name, restObject, EmptyMap)),
              [self |-> selfId])
  ELSE spread(zipObj(names(constructor.parameters), argIds), [self |-> selfId])

\* instructions of the frame INIT pushes
initInstructions(self, constructor, lookupStart, instruction) ==
  LET ownSuperclass == superclass(lookupStart)
  IN (IF instruction.initFields
      THEN initFieldsInstructions(allFields(hierarchy(resolve(self.module))))
      ELSE <<>>)
     \o (IF ownSuperclass.kind # "Nothing" \/ ~constructor.baseCall.callsSuper
         THEN flatMapCompile(constructor.baseCall.args)
                \o <<LOAD("self"),
                     INIT(Len(constructor.baseCall.args),
                          IF constructor.baseCall.callsSuper
                          THEN fullyQualifiedName(ownSuperclass)
                          ELSE instruction.lookupStart,
                          FALSE)>>
         ELSE <<>>)
     \o compile(constructor.body)
     \o <<LOAD("self"), INTERRUPT("return")>>

stepINIT(ev, instruction, uuids) ==
  IF Len(currentFrame(ev).operandStack) < instruction.arity + 1 THEN poppedEmpty(ev)
  ELSE
    LET operands == currentFrame(ev).operandStack
        selfId == last(operands)
        argIds == reverse(popped(init(operands), instruction.arity))
        ev1 == popOperands(ev, instruction.arity + 1)
    IN IF selfId \notin DOMAIN ev.instances THEN undefinedInstance(ev1)
       ELSE
         LET self == ev.instances[selfId]
             lookupStart == resolve(instruction.lookupStart)
             constructor == constructorLookup(instruction.arity, lookupStart)
             restObject == uuids[1]
             ev2 == IF isVarArgs(constructor)
                    THEN addInstance(ev1, restObject, ListModule,
                           ListValue(slice(argIds, Len(constructor.parameters) - 1)))
                    ELSE ev1
         IN IF constructor.kind = "Nothing" THEN Failure(ev1, "Missing constructor")
            ELSE pushFrame(ev2, "return",
                   Frame(initInstructions(self, constructor, lookupStart, instruction),
                         initLocals(constructor, argIds, selfId, restObject),
                         <<>>))

\* alternative: any operand but the true id takes the else branch
stepIF_THEN_ELSEOfAnything(ev, instruction, uuids) ==
  IF currentFrame(ev).operandStack = <<>> THEN poppedEmpty(ev)
  ELSE pushFrame(popOperands(ev, 1), "result",
         Frame(<<PUSH(VOID_ID)>>
                 \o (IF last(currentFrame(ev).operandStack) = TRUE_ID
                     THEN instruction.thenHandler ELSE instruction.elseHandler)
                 \o <<INTERRUPT("result")>>,
               EmptyMap, <<>>))

stepIF_THEN_ELSE(ev, instruction, uuids) ==
  IF currentFrame(ev).operandStack = <<>> THEN poppedEmpty(ev)
  ELSE LET check == last(currentFrame(ev).operandStack)
           ev1 == popOperands(ev, 1)
       IN IF check # TRUE_ID /\ check # FALSE_ID
          THEN interrupt(addInstance(ev1, uuids[1], BadParameterException, Undefined),
                         "exception", uuids[1])
          ELSE pushFrame(ev1, "result",
                 Frame(<<PUSH(VOID_ID)>>
                         \o (IF check = TRUE_ID THEN instruction.thenHandler
                             ELSE instruction.elseHandler)
                         \o <<INTERRUPT("result")>>,
                       EmptyMap, <<>>))

\* alternative: an always frame that lets exceptions through
alwaysFrameOfResults(instruction) ==
  Frame(<<STORE("<previous_interruption>", FALSE)>>
          \o instruction.alwaysHandler
          \o <<LOAD("<previous_interruption>"), RESUME_INTERRUPTION>>,
        EmptyMap, <<"result", "return">>)

\* the three frames of a try, bottom first
alwaysFrame(instruction) ==
  Frame(<<STORE("<previous_interruption>", FALSE)>>
          \o instruction.alwaysHandler
          \o <<LOAD("<previous_interruption>"), RESUME_INTERRUPTION>>,
        EmptyMap, <<"result", "return", "exception">>)

\* alternative: a catch frame that raises void when no catch matched
catchFrameOfVoid(instruction) ==
  Frame(<<STORE("<exception>", FALSE)>>
          \o instruction.catchHandler
          \o <<PUSH(VOID_ID), INTERRUPT("exception")>>,
        EmptyMap, <<"exception">>)

catchFrame(instruction) ==
  Frame(<<STORE("<exception>", FALSE)>>
          \o instruction.catchHandler
          \o <<LOAD("<exception>"), INTERRUPT("exception")>>,
        EmptyMap, <<"exception">>)

bodyFrame(instruction) ==
  Frame(<<PUSH(VOID_ID)>> \o instruction.body \o <<INTERRUPT("result")>>, EmptyMap, <<>>)

stepTRY_CATCH_ALWAYS(ev, instruction) ==
  [ev EXCEPT !.frameStack =
     [@ EXCEPT ![Len(@)].resume = Append(@, "result")]
       \o <<alwaysFrame(instruction), catchFrame(instruction), bodyFrame(instruction)>>]

stepINTERRUPT(ev, instruction) ==
  IF currentFrame(ev).operandStack = <<>> THEN poppedEmpty(ev)
  ELSE interrupt(popOperands(ev, 1), instruction.interruption,
                 last(currentFrame(ev).operandStack))

allInterruptions == <<"exception", "return", "result">>

\* the first interruption the frame does not resume
lastInterruption(frame) ==
  allInterruptions[CHOOSE i \in 1..Len(allInterruptions) :
                     /\ ~includes(frame.resume, allInterruptions[i])
                     /\ \A j \in 1..(i - 1) : includes(frame.resume, allInterruptions[j])]

stepRESUME_INTERRUPTION(ev, instruction) ==
  IF Len(currentFrame(ev).resume) # Len(allInterruptions) - 1
  THEN Failure(ev, "Interruption to resume cannot be inferred")
  ELSE IF currentFrame(ev).operandStack = <<>> THEN poppedEmpty(ev)
       ELSE interrupt(popOperands(ev, 1), lastInterruption(currentFrame(ev)),
                      last(currentFrame(ev).operandStack))

\* the instruction the next step executes
nextInstruction(ev) ==
  currentFrame(ev).instructions[currentFrame(ev).nextInstruction + 1]

\* currentFrame.nextInstruction++
advance(ev) == [ev EXCEPT !.frameStack[Len(ev.frameStack)].nextInstruction = @ + 1]

(***************************************************************************)
(* The evaluation driver.                                                  *)
(***************************************************************************)
cloneEvaluation(ev) ==
  [instances |->
     [name \in DOMAIN ev.instances |->
        [id |-> ev.instances[name].id,
         module |-> ev.instances[name].module,
         fields |-> ev.instances[name].fields,
         innerValue |-> ev.instances[name].innerValue]],
   frameStack |->
     [i \in 1..Len(ev.frameStack) |->
        [locals |-> ev.frameStack[i].locals,
         operandStack |-> ev.frameStack[i].operandStack,
         instructions |-> ev.frameStack[i].instructions,
         nextInstruction |-> ev.frameStack[i].nextInstruction,
         resume |-> ev.frameStack[i].resume]],
   failure |-> ""]

RECURSIVE singletonInstances(_)
singletonInstances(singletons) ==
  IF singletons = <<>> THEN <<>>
  ELSE <<[id |-> singletons[1].id, module |-> fullyQualifiedName(singletons[1]),
          fields |-> EmptyMap, innerValue |-> Undefined]>>
         \o singletonInstances(Tail(singletons))

RECURSIVE singletonInstructions(_)
singletonInstructions(singletons) ==
  IF singletons = <<>> THEN <<>>
  ELSE flatMapCompile(singletons[1].superCall.args)
         \o <<PUSH(singletons[1].id),
              INIT(Len(singletons[1].superCall.args), singletons[1].superclassName, TRUE)>>
         \o singletonInstructions(Tail(singletons))

\* [...].reduce((all, instance) => assoc(instance.id, instance, all), {})
RECURSIVE byId(_)
byId(objects) ==
  IF objects = <<>> THEN EmptyMap
  ELSE assoc(last(objects).id, last(objects), byId(init(objects)))

RECURSIVE singletonLocals(_)
singletonLocals(singletons) ==
  IF singletons = <<>> THEN EmptyMap
  ELSE assoc(fullyQualifiedName(last(singletons)), last(singletons).id,
             singletonLocals(init(singletons)))

initialInstances ==
  <<[id |-> NULL_ID, module |-> ObjectModule, fields |-> EmptyMap, innerValue |-> NullValue],
    [id |-> TRUE_ID, module |-> BooleanModule, fields |-> EmptyMap,
     innerValue |-> BooleanValue(TRUE)],
    [id |-> FALSE_ID, module |-> BooleanModule, fields |-> EmptyMap,
     innerValue |-> BooleanValue(FALSE)]>>

buildEvaluationFor ==
  [instances |-> byId(initialInstances \o singletonInstances(globalSingletons)),
   frameStack |->
     <<[instructions |-> singletonInstructions(globalSingletons),
        nextInstruction |-> 0,
        locals |-> spread([null |-> NULL_ID, true |-> TRUE_ID, false |-> FALSE_ID],
                          singletonLocals(globalSingletons)),
        operandStack |-> <<>>,
        resume |-> <<>>]>>,
   failure |-> ""]

\* a frame of the instructions is pushed
runInstructions(ev, instructions) ==
  [ev EXCEPT !.frameStack = Append(@, Frame(instructions, EmptyMap, <<>>))]

\* run, up to its loop: the frame of the body is pushed
runBody(ev, body) == runInstructions(ev, compile(body))

\* the clone copies innerValue by reference: what a step changes inside the
\* innerValue of an object that the evaluation cloned from has too, changes there
aliased(original, before, after) ==
  [original EXCEPT !.instances =
     [id \in DOMAIN original.instances |->
        IF /\ id \in DOMAIN before.instances
           /\ id \in DOMAIN after.instances
           /\ after.instances[id].innerValue # before.instances[id].innerValue
        THEN [original.instances[id] EXCEPT !.innerValue = after.instances[id].innerValue]
        ELSE original.instances[id]]]

\* the condition of the loops of run and runTests
stepping(ev) ==
  currentFrame(ev).nextInstruction < Len(currentFrame(ev).instructions)

\* run, after its loop: evaluation.instances[evaluation.frameStack.pop()!.operandStack.pop()!]
runResult(ev) ==
  LET operands == currentFrame(ev).operandStack
  IN IF operands = <<>> THEN Nothing
     ELSE IF last(operands) \in DOMAIN ev.instances THEN ev.instances[last(operands)]
          ELSE Nothing

(***************************************************************************)
(* The tests of the environment: name |-> body.                            *)
(***************************************************************************)
ThrowE == Throw(New("p.E", <<>>))
StoreX == Assignment(LocalRef("x"), True)
Nop == Body(<<>>)

Tests ==
  [tryCatch |->
     Body(<<Try(Body(<<ThrowE>>), <<Catch("e", "p.E", Body(<<Number(700000)>>))>>, Nop)>>),
   tryBody |->
     Body(<<Try(Body(<<True>>), <<Catch("e", "p.E", Body(<<False>>))>>, Nop)>>),
   tryEmpty |->
     Body(<<Try(Nop, <<>>, Nop)>>),
   tryFirstMatch |->
     Body(<<Try(Body(<<ThrowE>>),
                <<Catch("e", "p.F", Body(<<Null>>)),
                  Catch("e", ExceptionModule, Body(<<True>>)),
                  Catch("e", "p.E", Body(<<False>>))>>,
                Nop)>>),
   tryMethodThrows |->
     Body(<<Try(Body(<<Send(ModuleRef("p.b"), "boom", <<>>)>>),
                <<Catch("e", "p.E", Body(<<LocalRef("e")>>))>>, Nop)>>),
   alwaysStore |->
     Body(<<Variable("x", False),
            Try(Body(<<True>>), <<>>, Body(<<StoreX>>)),
            LocalRef("x")>>),
   alwaysStoreCaught |->
     Body(<<Variable("x", False),
            Try(Body(<<ThrowE>>), <<Catch("e", "p.E", Body(<<Null>>))>>, Body(<<StoreX>>)),
            LocalRef("x")>>),
   alwaysStoreUncaught |->
     Body(<<Variable("x", False),
            Try(Body(<<ThrowE>>), <<Catch("e", "p.F", Body(<<Null>>))>>, Body(<<StoreX>>)),
            LocalRef("x")>>),
   alwaysStoreNested |->
     Body(<<Variable("x", False),
            Try(Body(<<Try(Body(<<ThrowE>>), <<>>, Body(<<StoreX>>))>>),
                <<Catch("e", "p.E", Body(<<LocalRef("x")>>))>>, Nop)>>),
   alwaysStoreReturn |->
     Body(<<Send(ModuleRef("p.b"), "tryReturn", <<>>)>>),
   alwaysSend |->
     Body(<<Try(Body(<<True>>), <<>>, Body(<<Send(ModuleRef("p.b"), "m", <<>>)>>))>>),
   alwaysSendCaught |->
     Body(<<Try(Body(<<ThrowE>>), <<Catch("e", "p.E", Body(<<Null>>))>>,
                Body(<<Send(ModuleRef("p.b"), "fall", <<>>)>>))>>),
   alwaysIf |->
     Body(<<Try(Body(<<True>>), <<>>, Body(<<If(True, Nop, Nop)>>))>>),
   alwaysIfReturn |->
     Body(<<Send(ModuleRef("p.b"), "tryReturnIf", <<>>)>>),
   alwaysThrows |->
     Body(<<Try(Body(<<True>>), <<>>, Body(<<If(True, Body(<<ThrowE>>), Nop)>>))>>),
   alwaysTry |->
     Body(<<Try(Body(<<ThrowE>>), <<>>, Body(<<Try(Nop, <<>>, Nop)>>))>>),
   notUnderstood |->
     Body(<<Send(ModuleRef("p.c"), "foo", <<True, Null>>)>>),
   notUnderstoodDefault |->
     Body(<<Send(ModuleRef("p.b"), "foo", <<False>>)>>),
   superNotUnderstood |->
     Body(<<Send(ModuleRef("p.c"), "q", <<True>>)>>),
   superSend |->
     Body(<<Send(ModuleRef("p.c"), "m", <<>>)>>),
   fixed |->
     Body(<<Send(ModuleRef("p.b"), "f", <<True, False>>)>>),
   varargsNone |->
     Body(<<Send(ModuleRef("p.b"), "v", <<True>>)>>),
   varargsTwo |->
     Body(<<Send(ModuleRef("p.b"), "v", <<True, False, Null>>)>>),
   newFixed |->
     Body(<<New("p.P", <<True, False>>)>>),
   newVarargsNone |->
     Body(<<New("p.P", <<True>>)>>),
   newVarargsTwo |->
     Body(<<New("p.P", <<True, False, Null>>)>>),
   nativeSend |->
     Body(<<Send(ModuleRef("p.b"), "identity", <<>>)>>),
   fields |->
     Body(<<Send(ModuleRef("p.b"), "setCount", <<True>>),
            Send(ModuleRef("p.b"), "getCount", <<>>)>>),
   fallsOff |->
     Body(<<Send(ModuleRef("p.b"), "fall", <<>>)>>),
   nonBoolean |->
     Body(<<If(Null, Nop, Nop)>>),
   string |->
     Body(<<String("hello")>>),
   number |->
     Body(<<Number(700004)>>),
   listAdd |->
     Body(<<Send(Send(ModuleRef("p.s"), "getOthers", <<>>), "add", <<Null>>)>>),
   newChained |->
     Body(<<New("p.Q", <<True>>)>>),
   nonBooleanCaught |->
     Body(<<Try(Body(<<If(Null, Nop, Nop)>>),
                <<Catch("e", ExceptionModule, Body(<<True>>))>>, Nop)>>),
   alwaysSendThrows |->
     Body(<<Try(Body(<<True>>), <<>>, Body(<<Send(ModuleRef("p.b"), "boom", <<>>)>>))>>),
   throwVoid |->
     Body(<<Throw(If(True, Nop, Nop))>>),
   alwaysThrowsCaught |->
     Body(<<Try(Body(<<Try(Body(<<True>>), <<>>, Body(<<ThrowE>>))>>),
                <<Catch("e", ExceptionModule, Body(<<True>>))>>, Nop)>>),
   assignUnbound |->
     Body(<<Assignment(LocalRef("y"), True)>>)]

\* the tests a clone is stepped in lock-step with
LockStepTests == {"newFixed", "varargsTwo", "notUnderstood", "fields", "string"}

\* frames of instructions a client of step builds itself: name |-> instructions
Programs ==
  [jumpNonBoolean |->
     <<PUSH(NULL_ID), CONDITIONAL_JUMP(0)>>,
   jumpNonBooleanCaught |->
     <<TRY_CATCH_ALWAYS(<<PUSH(NULL_ID), CONDITIONAL_JUMP(1), PUSH(TRUE_ID), PUSH(FALSE_ID)>>,
                        <<PUSH(TRUE_ID), INTERRUPT("result")>>,
                        <<>>)>>,
   jump |->
     <<PUSH(FALSE_ID), CONDITIONAL_JUMP(1), PUSH(NULL_ID), PUSH(TRUE_ID)>>,
   jumpTrue |->
     <<PUSH(TRUE_ID), CONDITIONAL_JUMP(1), PUSH(NULL_ID), PUSH(TRUE_ID)>>,
   jumpNowhere |->
     <<PUSH(FALSE_ID), CONDITIONAL_JUMP(0), PUSH(NULL_ID)>>,
   jumpToEnd |->
     <<PUSH(FALSE_ID), CONDITIONAL_JUMP(1), PUSH(NULL_ID)>>,
   jumpTrueToEnd |->
     <<PUSH(TRUE_ID), CONDITIONAL_JUMP(1), PUSH(NULL_ID)>>,
   jumpLast |->
     <<PUSH(TRUE_ID), CONDITIONAL_JUMP(0)>>,
   jumpPast |->
     <<PUSH(FALSE_ID), CONDITIONAL_JUMP(3), PUSH(NULL_ID)>>,
   jumpBack |->
     <<PUSH(FALSE_ID), CONDITIONAL_JUMP(-1), PUSH(NULL_ID)>>]

\* runTests: the tests at the first positions are skipped
SKIP == 167

(***************************************************************************)
(* uuid(): any id that is not yet in use.                                  *)
(***************************************************************************)
UuidNames == <<"u1", "u2", "u3", "u4", "u5", "u6", "u7", "u8">>

UuidPool == {UuidNames[i] : i \in 1..MaxUuid}

\* what the (at most two) calls of uuid() of one step may return; NONE stands
\* for a call the model has no id left for
uuidChoices(ev, instruction) ==
  LET unused == UuidPool \ DOMAIN ev.instances
      orNone(ids) == IF ids = {} THEN {NONE} ELSE ids
  IN IF instruction.kind \in {"INSTANTIATE", "CALL", "INIT", "CONDITIONAL_JUMP", "IF_THEN_ELSE"}
     THEN UNION {{<<a, b>> : b \in orNone(unused \ {a})} : a \in orNone(unused)}
     ELSE {<<NONE, NONE>>}

(***************************************************************************)
(* History: what the last step raised, and to which frame it went.          *)
(***************************************************************************)
NoInterruption == [kind |-> "none", value |-> NONE]

\* the interruption the next step of ev raises: the arguments of interrupt
raised(ev, uuids) ==
  LET frame == currentFrame(ev)
      instruction == nextInstruction(ev)
      operands == frame.operandStack
  IN IF operands = <<>> THEN NoInterruption
     ELSE CASE instruction.kind = "INTERRUPT" ->
                 [kind |-> instruction.interruption, value |-> last(operands)]
            [] instruction.kind = "RESUME_INTERRUPTION" ->
                 IF Len(frame.resume) = 2
                 THEN [kind |-> lastInterruption(frame), value |-> last(operands)]
                 ELSE NoInterruption
            [] instruction.kind \in {"CONDITIONAL_JUMP", "IF_THEN_ELSE"} ->
                 IF last(operands) \notin {TRUE_ID, FALSE_ID}
                 THEN [kind |-> "exception", value |-> uuids[1]]
                 ELSE NoInterruption
            [] OTHER -> NoInterruption

\* the history of a new frame
pushedBy(role) == [role |-> role, received |-> <<>>]

\* what the frames a step pushes are, bottom first
roles(instruction) ==
  IF instruction.kind = "TRY_CATCH_ALWAYS" THEN <<"always", "catch", "body">>
  ELSE <<instruction.kind>>

\* history after a step from ev to next
deliver(ev, next, uuids) ==
  LET before == Len(ev.frameStack)
      depth == Len(next.frameStack)
      kept == [i \in 1..depth |->
                 IF i <= before THEN history[i]
                 ELSE pushedBy(roles(nextInstruction(ev))[i - before])]
  IN IF raised(ev, uuids).kind # "none" /\ next.failure = "" /\ depth < before
     THEN [kept EXCEPT ![depth].received = Append(@, raised(ev, uuids))]
     ELSE kept

\* the log entry of a step from ev to next
entry(ev, next, uuids) ==
  [depth |-> Len(ev.frameStack),
   index |-> currentFrame(ev).nextInstruction,
   instruction |-> nextInstruction(ev),
   role |-> last(history).role,
   received |-> last(history).received,
   raised |-> raised(ev, uuids),
   after |-> Len(next.frameStack)]

(***************************************************************************)
(* The state machine.                                                      *)
(***************************************************************************)
Init ==
  /\ pc = "bootstrap"
  /\ test = NONE
  /\ evaluation = buildEvaluationFor
  /\ result = Nothing
  /\ previous = buildEvaluationFor
  /\ log = <<>>
  /\ history = <<pushedBy("bootstrap")>>
  /\ index = 0
  /\ initialized = buildEvaluationFor
  /\ twin = Nothing
  /\ ran = {}

\* what the twin is after it steps too, with its own uuids
lockStep(execute(_, _, _)) ==
  IF twin = Nothing THEN {Nothing}
  ELSE IF twin.failure # "" \/ twin.frameStack = <<>> THEN {twin}
       ELSE IF ~stepping(twin) \/ nextInstruction(twin) # nextInstruction(evaluation)
            THEN {twin}
            ELSE {next \in {execute(advance(twin), nextInstruction(twin), uuids) :
                              uuids \in uuidChoices(twin, nextInstruction(twin))} :
                    NONE \notin DOMAIN next.instances}

\* one iteration of the loop of run or of runTests: step, on an instruction of
\* the kind, executed by the operator of that kind
Step(kind, execute(_, _, _)) ==
  /\ pc \in {"bootstrap", "test"}
  /\ evaluation.failure = ""
  /\ evaluation.frameStack # <<>>
  /\ stepping(evaluation)
  /\ nextInstruction(evaluation).kind = kind
  /\ \E uuids \in uuidChoices(evaluation, nextInstruction(evaluation)) :
       LET next == execute(advance(evaluation), nextInstruction(evaluation), uuids)
       IN /\ NONE \notin DOMAIN next.instances
          /\ Len(next.frameStack) <= MaxFrames
          /\ evaluation' = next
          /\ previous' = evaluation
          /\ log' = Append(log, entry(evaluation, next, uuids))
          /\ history' = deliver(evaluation, next, uuids)
          /\ initialized' = IF pc = "bootstrap" THEN next
                            ELSE aliased(initialized, evaluation, next)
  /\ twin' \in lockStep(execute)
  /\ UNCHANGED <<pc, test, index, ran, result>>

Load ==
  /\ Step("LOAD", LAMBDA ev, instruction, uuids : stepLOAD(ev, instruction))

Store ==
  /\ Step("STORE", LAMBDA ev, instruction, uuids : stepSTORE(ev, instruction))

Push ==
  /\ Step("PUSH", LAMBDA ev, instruction, uuids : stepPUSH(ev, instruction))

Get ==
  /\ Step("GET", LAMBDA ev, instruction, uuids : stepGET(ev, instruction))

Set ==
  /\ Step("SET", LAMBDA ev, instruction, uuids : stepSET(ev, instruction))

Instantiate ==
  /\ Step("INSTANTIATE", stepINSTANTIATE)

Inherits ==
  /\ Step("INHERITS", LAMBDA ev, instruction, uuids : stepINHERITS(ev, instruction))

ConditionalJump ==
  /\ Step("CONDITIONAL_JUMP", stepCONDITIONAL_JUMP)

Call ==
  /\ Step("CALL", stepCALL)

Initialize ==
  /\ Step("INIT", stepINIT)

IfThenElse ==
  /\ Step("IF_THEN_ELSE", stepIF_THEN_ELSE)

TryCatchAlways ==
  /\ Step("TRY_CATCH_ALWAYS", LAMBDA ev, instruction, uuids : stepTRY_CATCH_ALWAYS(ev, instruction))

Interrupt ==
  /\ Step("INTERRUPT", LAMBDA ev, instruction, uuids : stepINTERRUPT(ev, instruction))

ResumeInterruption ==
  /\ Step("RESUME_INTERRUPTION", LAMBDA ev, instruction, uuids : stepRESUME_INTERRUPTION(ev, instruction))

\* forEach of runTests is at a test: the evaluation is initialized, or run
\* returned, or the test before was skipped
atTest ==
  /\ \/ pc \in {"tests", "done"}
     \/ pc = "bootstrap" /\ evaluation.failure = "" /\ ~stepping(evaluation)
  /\ index < TestCount

\* runTests, at a test at one of the first positions: nothing is run
SkipTest ==
  /\ atTest
  /\ ~(index > SKIP)
  /\ index' = index + 1
  /\ pc' = "tests"
  /\ UNCHANGED <<test, initialized, evaluation, twin, ran, result, previous, log, history>>

\* runTests, at any other test: clone the initialized evaluation and start run
RunTest ==
  /\ atTest
  /\ index > SKIP
  /\ \E name \in DOMAIN Tests :
       /\ test' = name
       /\ evaluation' = runBody(cloneEvaluation(initialized), Tests[name])
       /\ twin' = IF name \in LockStepTests THEN cloneEvaluation(evaluation') ELSE Nothing
  /\ pc' = "test"
  /\ ran' = ran \cup {index}
  /\ result' = Nothing
  /\ previous' = initialized
  /\ log' = <<>>
  /\ history' = <<pushedBy("bootstrap"), pushedBy("run")>>
  /\ UNCHANGED <<index, initialized>>

\* a client of step: clone the initialized evaluation, push a frame of
\* instructions and step it as run does
RunProgram ==
  /\ atTest
  /\ index > SKIP
  /\ \E name \in DOMAIN Programs :
       /\ test' = name
       /\ evaluation' = runInstructions(cloneEvaluation(initialized), Programs[name])
  /\ twin' = Nothing
  /\ pc' = "test"
  /\ result' = Nothing
  /\ previous' = initialized
  /\ log' = <<>>
  /\ history' = <<pushedBy("bootstrap"), pushedBy("run")>>
  /\ UNCHANGED <<index, initialized, ran>>

\* run, once its loop ends: pop the top frame and return
RunReturn ==
  /\ pc = "test"
  /\ evaluation.failure = ""
  /\ ~stepping(evaluation)
  /\ result' = runResult(evaluation)
  /\ evaluation' = [evaluation EXCEPT !.frameStack = init(@)]
  /\ pc' = "done"
  /\ index' = index + 1
  /\ previous' = evaluation
  /\ history' = init(history)
  /\ UNCHANGED <<test, initialized, twin, ran, log>>

Next ==
  \/ Load \/ Store \/ Push \/ Get \/ Set \/ Instantiate \/ Inherits
  \/ ConditionalJump \/ Call \/ Initialize \/ IfThenElse \/ TryCatchAlways
  \/ Interrupt \/ ResumeInterruption
  \/ SkipTest \/ RunTest \/ RunProgram \/ RunReturn

Spec == Init /\ [][Next]_vars

(***************************************************************************)
(* Properties.  They speak of the last step through the log: executed is   *)
(* the entry of the step from previous to evaluation.                      *)
(***************************************************************************)
stepped == log # <<>> /\ pc # "done"

executed == last(log)

\* the frame that executed the last step, as it was before the step
caller == currentFrame(previous)

\* the last step executed a CALL or an INIT that threw no host error
sent == /\ stepped
        /\ executed.instruction.kind \in {"CALL", "INIT"}
        /\ evaluation.failure = ""

called == sent /\ executed.instruction.kind = "CALL"

\* the receiver the CALL or INIT popped
receiver ==
  IF executed.instruction.kind = "CALL"
  THEN caller.operandStack[Len(caller.operandStack) - executed.instruction.arity]
  ELSE last(caller.operandStack)

\* the arguments the CALL or INIT popped, in the order they were pushed
pushedArguments ==
  LET operands == IF executed.instruction.kind = "CALL" THEN caller.operandStack
                  ELSE init(caller.operandStack)
  IN SubSeq(operands, Len(operands) - executed.instruction.arity + 1, Len(operands))

\* the member the CALL or INIT resolved, Nothing when there is none
target ==
  IF executed.instruction.kind = "CALL"
  THEN methodLookup(executed.instruction.message, executed.instruction.arity,
                    resolve(callLookupStart(previous.instances[receiver], executed.instruction)))
  ELSE constructorLookup(executed.instruction.arity, resolve(executed.instruction.lookupStart))

notUnderstood == called /\ target.kind = "Nothing"

understood == sent /\ target.kind # "Nothing"

\* the ids the last step allocated
allocated == (DOMAIN evaluation.instances) \ (DOMAIN previous.instances)

\* C1: an always frame that an interruption of kind K with value v reached
\* raises, when its always-clause has run and its RESUME_INTERRUPTION executes,
\* exactly an interruption of kind K with value v
C1_AlwaysReraises ==
  (/\ stepped
   /\ executed.instruction.kind = "RESUME_INTERRUPTION"
   /\ executed.received # <<>>)
    => executed.raised = executed.received[1]

\* the ids a frame holds
heldBy(frame) ==
  {frame.locals[name] : name \in DOMAIN frame.locals}
    \cup {frame.operandStack[i] : i \in 1..Len(frame.operandStack)}

\* the ids the fields of an object hold
heldIn(object) == {object.fields[name] : name \in DOMAIN object.fields}

\* C2: every id in the locals or the operand stack of a frame, or in a field
\* of an object, is a key of instances
C2_HeapClosed ==
  /\ \A i \in 1..Len(evaluation.frameStack) :
       heldBy(evaluation.frameStack[i]) \subseteq DOMAIN evaluation.instances
  /\ \A id \in DOMAIN evaluation.instances :
       heldIn(evaluation.instances[id]) \subseteq DOMAIN evaluation.instances

\* C3: instances has the ids null, void, true and false, of the modules
\* Object, Object, Boolean and Boolean
C3_ReservedIds ==
  /\ {NULL_ID, VOID_ID, TRUE_ID, FALSE_ID} \subseteq DOMAIN evaluation.instances
  /\ evaluation.instances[NULL_ID].module = ObjectModule
  /\ evaluation.instances[VOID_ID].module = ObjectModule
  /\ evaluation.instances[TRUE_ID].module = BooleanModule
  /\ evaluation.instances[FALSE_ID].module = BooleanModule

\* the top frame is one a CALL pushed, with nothing left to execute
exhaustedCallee ==
  /\ pc \in {"bootstrap", "test"}
  /\ evaluation.failure = ""
  /\ evaluation.frameStack # <<>>
  /\ last(history).role = "CALL"
  /\ ~stepping(evaluation)

\* the last step executed the last instruction of a frame a CALL pushed, after
\* the body ran to its end: the return of void
fellOff ==
  /\ stepped
  /\ executed.role = "CALL"
  /\ executed.index = Len(caller.instructions) - 1
  /\ executed.index > 0
  /\ caller.instructions[executed.index] = PUSH(VOID_ID)
  /\ executed.instruction = INTERRUPT("return")

\* C4: a frame a CALL pushed (for the method or for messageNotUnderstood) whose
\* body runs to its end is removed and void is pushed on the frame that called;
\* it is never left on top with no instruction to execute
C4_FallsOffToVoid ==
  /\ ~exhaustedCallee
  /\ fellOff =>
       /\ Len(evaluation.frameStack) = executed.depth - 1
       /\ currentFrame(evaluation).operandStack
            = Append(previous.frameStack[executed.depth - 1].operandStack, VOID_ID)

\* the top frame binds self to the receiver
selfIsReceiver ==
  /\ "self" \in DOMAIN currentFrame(evaluation).locals
  /\ currentFrame(evaluation).locals["self"] = receiver

\* C5, as stated: after a CALL or an INIT, the self of the top frame is the
\* receiver the instruction popped, whatever the method is
C5_SelfAfterAnySend == sent => selfIsReceiver

\* the CALL resolved a native method
calledNative == called /\ target.kind # "Nothing" /\ target.isNative

\* C5: after an INIT, or a CALL of a method that is not native or of
\* messageNotUnderstood, the self of the top frame is the receiver the
\* instruction popped; a CALL of a native method pushes no frame
C5_SelfAfterSend ==
  /\ (sent /\ ~calledNative) =>
       /\ Len(evaluation.frameStack) = executed.depth + 1
       /\ selfIsReceiver
  /\ calledNative => Len(evaluation.frameStack) = executed.depth

\* a CALL of a method found in the hierarchy bound self to the receiver
C5_Witness ==
  /\ called
  /\ understood
  /\ ~calledNative
  /\ executed.instruction.arity > 0
  /\ selfIsReceiver

\* the tests whose body is one try that completes or throws an exception one
\* of its handlers matches, and whose always-clause raises nothing
TryTests ==
  {"tryCatch", "tryBody", "tryEmpty", "tryFirstMatch", "alwaysSend", "alwaysSendCaught",
   "alwaysIf"}

\* the class of the exception the body throws, NONE when it completes
thrown(body) ==
  IF body.sentences # <<>> /\ last(body.sentences).kind = "Throw"
  THEN last(body.sentences).arg.className
  ELSE NONE

\* the body whose last value the try is to deliver: the body of the try, or of
\* the first handler whose type the exception thrown inherits
delivering(try) ==
  IF thrown(try.body) = NONE THEN try.body
  ELSE try.catches[CHOOSE i \in 1..Len(try.catches) :
                     /\ inherits(resolve(thrown(try.body)), resolve(try.catches[i].parameterType))
                     /\ \A j \in 1..(i - 1) :
                          ~inherits(resolve(thrown(try.body)),
                                    resolve(try.catches[j].parameterType))].body

\* the id is the last value of the body: void for an empty one
denotes(id, body) ==
  IF body.sentences = <<>> THEN id = VOID_ID
  ELSE LET value == last(body.sentences).value
       IN CASE value.type = "null" -> id = NULL_ID
            [] value.type = "boolean" -> id = (IF value.value THEN TRUE_ID ELSE FALSE_ID)
            [] OTHER -> /\ id \in DOMAIN evaluation.instances
                        /\ evaluation.instances[id].innerValue = value

\* C6: a try whose body completes, or throws an exception a handler matches,
\* delivers exactly one value to the frame that executed TRY_CATCH_ALWAYS: the
\* last value of the body or of the first matching handler; its three frames
\* are gone and the frame goes on after the TRY_CATCH_ALWAYS
C6_TryDeliversOneValue ==
  (pc = "test" /\ test \in TryTests) =>
    /\ evaluation.failure = ""
    /\ (log # <<>> /\ Len(evaluation.frameStack) = log[1].depth) =>
         /\ currentFrame(evaluation).nextInstruction = log[1].index + 1
         /\ Len(currentFrame(evaluation).operandStack) = 1
         /\ denotes(currentFrame(evaluation).operandStack[1], delivering(Tests[test].sentences[1]))

\* the always-clause stores into a local of an enclosing frame, and raises
\* nothing itself
storing(handler) ==
  /\ \E i \in 1..Len(handler) : handler[i].kind = "STORE" /\ handler[i].lookup
  /\ \A i \in 1..Len(handler) : handler[i].kind \in {"PUSH", "LOAD", "STORE", "INSTANTIATE"}

\* the steps of the log that executed the TRY_CATCH_ALWAYS of such a try
tries ==
  {i \in 1..Len(log) : /\ log[i].instruction.kind = "TRY_CATCH_ALWAYS"
                       /\ storing(log[i].instruction.alwaysHandler)}

\* the step that ends the execution of the try of step i: the first after which
\* its frames are gone; 0 while there is none
finish(i) ==
  LET later == {j \in (i + 1)..Len(log) : log[j].after <= log[i].depth}
  IN IF later = {} THEN 0 ELSE CHOOSE j \in later : \A k \in later : j <= k

\* how often the execution of the try of step i executed instruction k of its
\* always-clause
executions(i, k) ==
  Cardinality({j \in (i + 1)..(IF finish(i) = 0 THEN Len(log) ELSE finish(i)) :
                 log[j].depth = log[i].depth + 1 /\ log[j].index = k})

\* C7: each instruction of an always-clause that stores into an enclosing local
\* executes exactly once per execution of the try, however the body ends
C7_AlwaysOnce ==
  \A i \in tries :
    \A k \in 1..Len(log[i].instruction.alwaysHandler) :
      /\ executions(i, k) <= 1
      /\ finish(i) # 0 => executions(i, k) = 1

\* the execution of such a try ended by the always frame raising again what
\* reached it
ended(i, kind) ==
  /\ finish(i) # 0
  /\ log[finish(i)].instruction.kind = "RESUME_INTERRUPTION"
  /\ log[finish(i)].depth = log[i].depth + 1
  /\ log[finish(i)].raised.kind = kind
  /\ executions(i, 1) = 1

\* such a try ended by an exception none of its handlers matched, which a try
\* around it caught
C7_Witness ==
  /\ \E i \in tries : ended(i, "exception")
  /\ evaluation.failure = ""

\* C8: a CALL of a message the receiver does not understand allocates a String
\* of the message and a List of the arguments in the order they were pushed, and
\* pushes a frame that runs messageNotUnderstood/2 of the module of the receiver
\* with self and its two parameters bound; the frame that called resumes return
C8_NotUnderstood ==
  notUnderstood =>
    LET self == previous.instances[receiver]
        method == methodLookup("messageNotUnderstood", 2, resolve(self.module))
        frame == currentFrame(evaluation)
    IN /\ Len(evaluation.frameStack) = executed.depth + 1
       /\ \E nameId \in allocated : \E argsId \in allocated :
            /\ allocated = {nameId, argsId}
            /\ nameId # argsId
            /\ evaluation.instances[nameId].module = StringModule
            /\ evaluation.instances[nameId].innerValue = StringValue(executed.instruction.message)
            /\ evaluation.instances[argsId].module = ListModule
            /\ evaluation.instances[argsId].innerValue = ListValue(pushedArguments)
            /\ DOMAIN frame.locals
                 = {"self", method.parameters[1].name, method.parameters[2].name}
            /\ frame.locals["self"] = receiver
            /\ frame.locals[method.parameters[1].name] = nameId
            /\ frame.locals[method.parameters[2].name] = argsId
       /\ frame.instructions = compile(method.body)
       /\ frame.nextInstruction = 0
       /\ frame.operandStack = <<>>
       /\ includes(evaluation.frameStack[executed.depth].resume, "return")

\* a super call nothing above understands ran the messageNotUnderstood the class
\* of the receiver overrides
C8_Witness ==
  /\ notUnderstood
  /\ executed.instruction.lookupStart # NONE
  /\ executed.instruction.arity = 1
  /\ previous.instances[receiver].module = "p.c"
  /\ currentFrame(evaluation).instructions = <<>>

\* the names of the hierarchy of the receiver, the module of the receiver first
receiverHierarchy == names(hierarchy(resolve(previous.instances[receiver].module)))

\* the last step was a CALL with a lookupStart the hierarchy of the receiver
\* contains, of a method that is found and not native
calledSuper ==
  /\ called
  /\ executed.instruction.lookupStart # NONE
  /\ includes(receiverHierarchy, executed.instruction.lookupStart)
  /\ Len(evaluation.frameStack) = executed.depth + 1
  /\ Cardinality(allocated) < 2

\* the methods of the module that answer the message of the CALL
answering(name) ==
  LET members == resolve(name).members
  IN {members[i] : i \in {j \in 1..Len(members) :
                            /\ members[j].kind = "Method"
                            /\ members[j].name = executed.instruction.message
                            /\ matchesArity(members[j], executed.instruction.arity)}}

\* C9: a CALL with lookupStart C on a receiver whose hierarchy contains C runs
\* the method of the first class above C that answers the message, never one of
\* C or of a class below C
C9_SuperLookup ==
  calledSuper =>
    LET position == CHOOSE i \in 1..Len(receiverHierarchy) :
                      receiverHierarchy[i] = executed.instruction.lookupStart
        above == {i \in (position + 1)..Len(receiverHierarchy) :
                    answering(receiverHierarchy[i]) # {}}
        first == CHOOSE i \in above : \A j \in above : i <= j
    IN /\ above # {}
       /\ \E method \in answering(receiverHierarchy[first]) :
            currentFrame(evaluation).instructions
              = compile(method.body) \o <<PUSH(VOID_ID), INTERRUPT("return")>>
       /\ \A i \in 1..position : \A method \in answering(receiverHierarchy[i]) :
            currentFrame(evaluation).instructions
              # compile(method.body) \o <<PUSH(VOID_ID), INTERRUPT("return")>>

\* the super call of a method the class of the receiver and its superclass both
\* override ran the method of the class above them
C9_Witness ==
  /\ calledSuper
  /\ previous.instances[receiver].module = "p.c"
  /\ executed.instruction.lookupStart = "p.B"
  /\ currentFrame(evaluation).instructions
       = compile(Body(<<Return(True)>>)) \o <<PUSH(VOID_ID), INTERRUPT("return")>>

\* the last step pushed the frame of a method or constructor that was found
bound == understood /\ Len(evaluation.frameStack) = executed.depth + 1

\* C10: CALL and INIT bind the parameters to the arguments in the order they
\* were pushed; with a varargs last parameter, the first n-1 pairwise and the
\* last to a new List of the remaining arguments
C10_ParametersBound ==
  bound =>
    LET parameters == target.parameters
        n == Len(parameters)
        locals == currentFrame(evaluation).locals
    IN IF isVarArgs(target)
       THEN /\ \A i \in 1..(n - 1) : locals[parameters[i].name] = pushedArguments[i]
            /\ locals[parameters[n].name] \in allocated
            /\ evaluation.instances[locals[parameters[n].name]].module = ListModule
            /\ evaluation.instances[locals[parameters[n].name]].innerValue
                 = ListValue(SubSeq(pushedArguments, n, executed.instruction.arity))
       ELSE \A i \in 1..n : locals[parameters[i].name] = pushedArguments[i]

\* a CALL of a varargs method with three arguments bound the last parameter to
\* the list of the second and third
C10_Witness ==
  /\ bound
  /\ called
  /\ isVarArgs(target)
  /\ executed.instruction.arity = 3
  /\ evaluation.instances[currentFrame(evaluation).locals["rest"]].innerValue
       = ListValue(<<FALSE_ID, NULL_ID>>)

\* the names of the fields a module and its superclasses declare, those of a
\* superclass before those of its subclasses, each class in declaration order
RECURSIVE declaredFields(_)
declaredFields(module) ==
  IF module.kind = "Nothing" THEN <<>>
  ELSE declaredFields(superclass(module))
         \o names(SelectSeq(module.members, LAMBDA member : member.kind = "Field"))

\* the step that pushed the frame that executed step j; 0 when no step did
pusher(j) ==
  LET below == {i \in 1..(j - 1) : log[i].depth < log[j].depth}
  IN IF below = {} THEN 0 ELSE CHOOSE i \in below : \A k \in below : k <= i

\* the fields the frame of step j wrote before step j, in the order it wrote them
written(j) ==
  LET sets == SelectSeq(SubSeq(log, pusher(j) + 1, j - 1),
                        LAMBDA e : e.depth = log[j].depth /\ e.instruction.kind = "SET")
  IN [i \in 1..Len(sets) |-> sets[i].instruction.name]

\* the last step executed the INIT of the base call of a constructor, in the
\* frame an INIT pushed
chained ==
  /\ stepped
  /\ evaluation.failure = ""
  /\ executed.instruction.kind = "INIT"
  /\ ~executed.instruction.initFields
  /\ pusher(Len(log)) # 0
  /\ log[pusher(Len(log))].instruction.kind = "INIT"

\* C11: when the frame of an INIT reaches the INIT of its base call, so before
\* the body of any constructor runs, it has written every field the hierarchy
\* of the receiver declares exactly once, superclass fields first and each
\* class in declaration order, if it initializes fields; a frame of a chained
\* INIT has written nothing
C11_FieldsInitializedOnce ==
  chained =>
    written(Len(log)) =
      IF log[pusher(Len(log))].instruction.initFields
      THEN declaredFields(resolve(previous.instances[last(caller.operandStack)].module))
      ELSE <<>>

\* new p.Q(true) is at the base call of the constructor of Q: the fields of P,
\* then the field of Q are written
C11_Witness ==
  /\ chained
  /\ test = "newChained"
  /\ pc = "test"
  /\ log[pusher(Len(log))].instruction.initFields
  /\ written(Len(log)) = <<"first", "others", "tail">>

\* the base call of the constructor of P, chained from that of Q, wrote no field
C11_ChainedWitness ==
  /\ chained
  /\ test = "newChained"
  /\ pc = "test"
  /\ ~log[pusher(Len(log))].instruction.initFields
  /\ executed.instruction.lookupStart = ObjectModule

\* the last step executed a CONDITIONAL_JUMP or an IF_THEN_ELSE that popped an
\* operand that is neither the true id nor the false id
nonBoolean ==
  /\ stepped
  /\ executed.instruction.kind \in {"CONDITIONAL_JUMP", "IF_THEN_ELSE"}
  /\ caller.operandStack # <<>>
  /\ last(caller.operandStack) \notin {TRUE_ID, FALSE_ID}

\* the frames below the top frame of an evaluation that resume the interruption
resuming(ev, interruption) ==
  {i \in 1..(Len(ev.frameStack) - 1) : includes(ev.frameStack[i].resume, interruption)}

\* the highest of a non-empty set of frames
nearest(frames) == CHOOSE i \in frames : \A j \in frames : j <= i

\* C12: a CONDITIONAL_JUMP or IF_THEN_ELSE that pops a non-boolean, with a frame
\* below that resumes exception, does not fail: it allocates one instance of
\* wollok.lang.BadParameterException and delivers it to the nearest such frame,
\* which becomes the top frame where it was and no longer resumes exception; no
\* frame is pushed and the frames below are as they were
C12_NonBooleanRaises ==
  (nonBoolean /\ resuming(previous, "exception") # {}) =>
    LET h == nearest(resuming(previous, "exception"))
        handler == previous.frameStack[h]
        new == DOMAIN evaluation.instances \ DOMAIN previous.instances
    IN /\ evaluation.failure = ""
       /\ \E id \in new :
            /\ new = {id}
            /\ evaluation.instances[id].module = BadParameterException
            /\ evaluation.instances[id].id = id
            /\ currentFrame(evaluation).operandStack = Append(handler.operandStack, id)
       /\ \A id \in DOMAIN previous.instances :
            evaluation.instances[id] = previous.instances[id]
       /\ Len(evaluation.frameStack) = h
       /\ currentFrame(evaluation).nextInstruction = handler.nextInstruction
       /\ currentFrame(evaluation).instructions = handler.instructions
       /\ currentFrame(evaluation).locals = handler.locals
       /\ ~includes(currentFrame(evaluation).resume, "exception")
       /\ SubSeq(evaluation.frameStack, 1, h - 1) = SubSeq(previous.frameStack, 1, h - 1)

\* try { if (null) { } } catch e : Exception { true }: the IF_THEN_ELSE popped
\* null and the catch frame has the exception
C12_Witness ==
  /\ nonBoolean
  /\ resuming(previous, "exception") # {}
  /\ test = "nonBooleanCaught"
  /\ executed.instruction.kind = "IF_THEN_ELSE"
  /\ last(history).role = "catch"

\* the same of a CONDITIONAL_JUMP in the body of a try
C12_JumpWitness ==
  /\ nonBoolean
  /\ resuming(previous, "exception") # {}
  /\ test = "jumpNonBooleanCaught"
  /\ executed.instruction.kind = "CONDITIONAL_JUMP"
  /\ last(history).role = "catch"

\* C13: nothing a test does to its clone, stepping it, writing a field, storing
\* a local, allocating an object or modifying the innerValue of a List in
\* place, is observable in the initialized evaluation it was cloned from
C13_CloneIsolated == [][pc = "test" => initialized' = initialized]_vars

\* C14: a clone stepped in lock-step with the evaluation it was cloned from has,
\* after every step, the same heap: the same identifiers, those allocated after
\* the clone was taken too, and for each the same module, fields and innerValue
C14_LockStepHeapsEqual ==
  twin # Nothing => twin.instances = evaluation.instances

\* C15: every test forEach of runTests has passed, whatever its position, was
\* run on a clone of the initialized evaluation
C15_EveryTestRuns ==
  \A i \in 0..(index - 1) : i \in ran

\* C16: the loop of run ends only on the frame run pushed, and once run has
\* popped it and returned the frame stack is what it was before the call
C16_RunStopsOnItsFrame ==
  /\ (pc = "test" /\ evaluation.failure = "" /\ ~stepping(evaluation)) =>
       Len(evaluation.frameStack) = Len(initialized.frameStack) + 1
  /\ pc = "done" => evaluation.frameStack = initialized.frameStack

\* the last step called interrupt
interrupted ==
  /\ stepped
  /\ executed.raised.kind # "none"

\* C17: interrupt(kind, v) removes the frame that raised and every frame below
\* it that does not resume kind; the nearest frame that does becomes the top
\* frame with kind removed from its resume, v pushed on its operand stack, its
\* nextInstruction and locals as they were, and the frames below it unchanged;
\* with no such frame the step fails with the host failure Unhandled
C17_InterruptUnwinds ==
  interrupted =>
    LET kind == executed.raised.kind
        handlers == resuming(previous, kind)
    IN IF handlers = {}
       THEN evaluation.failure = "Unhandled interruption"
       ELSE LET h == nearest(handlers)
                handler == previous.frameStack[h]
                top == currentFrame(evaluation)
            IN /\ evaluation.failure = ""
               /\ Len(evaluation.frameStack) = h
               /\ \A i \in 1..Len(allInterruptions) :
                    includes(top.resume, allInterruptions[i])
                      <=> /\ allInterruptions[i] # kind
                          /\ includes(handler.resume, allInterruptions[i])
               /\ top.operandStack = Append(handler.operandStack, executed.raised.value)
               /\ top.nextInstruction = handler.nextInstruction
               /\ top.locals = handler.locals
               /\ top.instructions = handler.instructions
               /\ SubSeq(evaluation.frameStack, 1, h - 1)
                    = SubSeq(previous.frameStack, 1, h - 1)

\* C18: the resume of every frame holds kinds of interruption only, and none of
\* them twice
C18_ResumeIsSet ==
  \A f \in 1..Len(evaluation.frameStack) :
    LET resume == evaluation.frameStack[f].resume
    IN /\ \A i \in 1..Len(resume) : includes(allInterruptions, resume[i])
       /\ \A i, j \in 1..Len(resume) : resume[i] = resume[j] => i = j

\* the kinds of interruption the frame does not resume
missing(frame) ==
  {allInterruptions[i] : i \in {j \in 1..Len(allInterruptions) :
                                  ~includes(frame.resume, allInterruptions[j])}}

\* C19: RESUME_INTERRUPTION raises an interruption only when the frame resumes
\* all kinds but one, and then it raises that kind; when none, two or three of
\* the kinds are missing it fails with Interruption to resume cannot be
\* inferred and raises nothing
C19_ResumesTheMissingKind ==
  (stepped /\ executed.instruction.kind = "RESUME_INTERRUPTION"
           /\ caller.operandStack # <<>>) =>
    IF Cardinality(missing(caller)) = 1
    THEN executed.raised.kind \in missing(caller)
    ELSE /\ executed.raised.kind = "none"
         /\ evaluation.failure = "Interruption to resume cannot be inferred"

\* C20: an always frame receives at most one interruption while it is on the
\* frame stack, the one that unwound into it: what the frames pushed while its
\* always-clause runs raise is never delivered to it
C20_AlwaysReceivesOnce ==
  \A f \in 1..Len(history) :
    history[f].role = "always" => Len(history[f].received) <= 1

\* the last step executed a CONDITIONAL_JUMP that popped the true or the false id
jumped ==
  /\ stepped
  /\ executed.instruction.kind = "CONDITIONAL_JUMP"
  /\ caller.operandStack # <<>>
  /\ last(caller.operandStack) \in {TRUE_ID, FALSE_ID}

\* the index of the instruction that follows the one the last step executed
following == executed.index + 1

\* where the CONDITIONAL_JUMP of the last step jumps to when it pops false
jumpTarget == following + executed.instruction.count

\* the CONDITIONAL_JUMP of the last step succeeded: the frame is at the target
\* if it popped false, at the following instruction if it popped true
jumpSucceeded ==
  /\ evaluation.failure = ""
  /\ Len(evaluation.frameStack) = Len(previous.frameStack)
  /\ currentFrame(evaluation).nextInstruction =
       IF last(caller.operandStack) = FALSE_ID THEN jumpTarget ELSE following

\* C21, as stated: a CONDITIONAL_JUMP n on a boolean succeeds when n >= 0 and
\* the target is at most the length of the instructions, and fails otherwise
C21_JumpWithinBounds ==
  jumped =>
    IF executed.instruction.count >= 0 /\ jumpTarget <= Len(caller.instructions)
    THEN jumpSucceeded
    ELSE evaluation.failure = "Invalid jump count"

\* C21: a CONDITIONAL_JUMP n on a boolean succeeds when n >= 0 and the target
\* is the index of an instruction of the frame, so less than the length of its
\* instructions: the frame is then at the target if it popped false and at the
\* following instruction if it popped true; otherwise, whatever it popped, it
\* fails with Invalid jump count
C21_JumpToAnInstruction ==
  jumped =>
    IF executed.instruction.count >= 0 /\ jumpTarget < Len(caller.instructions)
    THEN jumpSucceeded
    ELSE evaluation.failure = "Invalid jump count"

\* a CONDITIONAL_JUMP popped false and jumped over at least one instruction
C21_Witness ==
  /\ jumped
  /\ last(caller.operandStack) = FALSE_ID
  /\ executed.instruction.count > 0
  /\ jumpSucceeded

\* a CONDITIONAL_JUMP to the end of the instructions failed
C21_EndWitness ==
  /\ jumped
  /\ executed.instruction.count >= 0
  /\ jumpTarget = Len(caller.instructions)
  /\ evaluation.failure = "Invalid jump count"

\* the last step executed a STORE that popped a value
stored ==
  /\ stepped
  /\ executed.instruction.kind = "STORE"
  /\ caller.operandStack # <<>>

\* the frames that bound the name of the STORE before the last step
bindersBefore ==
  {f \in 1..Len(previous.frameStack) :
     executed.instruction.name \in DOMAIN previous.frameStack[f].locals}

\* the frame the STORE of the last step is to bind the name in
storeFrame ==
  IF executed.instruction.lookup /\ bindersBefore # {}
  THEN nearest(bindersBefore)
  ELSE Len(previous.frameStack)

\* C22: a STORE(name, lookup) that pops v binds name to v in one frame, the
\* innermost that already binds name if lookup is set and there is one, the top
\* frame otherwise, and changes no other binding and the locals of no other
\* frame
C22_StoreBindsOneFrame ==
  stored =>
    LET name == executed.instruction.name
        v == last(caller.operandStack)
    IN /\ evaluation.failure = ""
       /\ Len(evaluation.frameStack) = Len(previous.frameStack)
       /\ \A f \in 1..Len(evaluation.frameStack) :
            LET before == previous.frameStack[f].locals
                after == evaluation.frameStack[f].locals
            IN IF f = storeFrame
               THEN /\ DOMAIN after = DOMAIN before \cup {name}
                    /\ after[name] = v
                    /\ \A other \in DOMAIN before \ {name} : after[other] = before[other]
               ELSE after = before
       /\ currentFrame(evaluation).operandStack
            = SubSeq(caller.operandStack, 1, Len(caller.operandStack) - 1)
       /\ ~executed.instruction.lookup => currentFrame(evaluation).locals[name] = v

\* a STORE with lookup changed a name that a frame below the top frame binds
C22_Witness ==
  /\ stored
  /\ executed.instruction.lookup
  /\ storeFrame < Len(previous.frameStack)
  /\ previous.frameStack[storeFrame].locals[executed.instruction.name]
       # last(caller.operandStack)
  /\ evaluation.failure = ""

\* a STORE with lookup of a name no frame binds
C22_UnboundWitness ==
  /\ stored
  /\ executed.instruction.lookup
  /\ bindersBefore = {}
  /\ evaluation.failure = ""

\* the frames that were on the frame stack before the last step and still are
kept ==
  {f \in 1..Len(previous.frameStack) : f <= Len(evaluation.frameStack)}

\* C23: the nextInstruction of every frame is at least 0 and at most the length
\* of its instructions, and no step changes the instructions of a frame that
\* stays on the frame stack
C23_FramesInBounds ==
  /\ \A f \in 1..Len(evaluation.frameStack) :
       /\ evaluation.frameStack[f].nextInstruction >= 0
       /\ evaluation.frameStack[f].nextInstruction <= Len(evaluation.frameStack[f].instructions)
  /\ stepped =>
       \A f \in kept :
         evaluation.frameStack[f].instructions = previous.frameStack[f].instructions

\* an interruption resumed a frame below, in a run that executed a
\* CONDITIONAL_JUMP before
C23_Witness ==
  /\ interrupted
  /\ pc = "test"
  /\ evaluation.failure = ""
  /\ Len(evaluation.frameStack) < Len(previous.frameStack)
  /\ \E i \in 1..Len(log) :
       /\ log[i].instruction.kind = "CONDITIONAL_JUMP"
       /\ log[i].raised.kind = "none"

\* the last step executed the last instruction of a catch frame: no catch
\* matched the exception the frame received, and the frame raised again
reraised ==
  /\ stepped
  /\ executed.role = "catch"
  /\ executed.index = Len(caller.instructions) - 1
  /\ executed.instruction = INTERRUPT("exception")
  /\ executed.received # <<>>

\* the interruption of the last step went to the always frame of the try, which
\* has the value on top of its operand stack
reachedAlways(value) ==
  /\ evaluation.failure = ""
  /\ Len(evaluation.frameStack) = executed.depth - 1
  /\ last(history).role = "always"
  /\ last(last(history).received) = [kind |-> "exception", value |-> value]
  /\ last(currentFrame(evaluation).operandStack) = value

\* C24, as stated: a catch frame none of whose catches matched raises an
\* exception interruption with the void value, which the always frame receives
C24_ReraisesVoid ==
  reraised => reachedAlways(VOID_ID)

\* C24: a catch frame none of whose catches matched raises an exception
\* interruption with the exception it received from the body of the try, which
\* the always frame receives
C24_ReraisesTheException ==
  reraised => reachedAlways(executed.received[1].value)

\* a try whose catches do not match the instance of p.E its body threw: the
\* always frame has that instance
C24_Witness ==
  /\ reraised
  /\ Len(caller.instructions) > 3
  /\ executed.received[1].value \in DOMAIN evaluation.instances
  /\ evaluation.instances[executed.received[1].value].module = "p.E"
  /\ reachedAlways(executed.received[1].value)

\* the same of a try with no catch
C24_NoCatchWitness ==
  /\ reraised
  /\ Len(caller.instructions) = 3
  /\ reachedAlways(executed.received[1].value)

=============================================================================
